---- MODULE Spec2Model ----
(***************************************************************************)
(* pog::Tokenizer (include/pog/tokenizer.h): the token / lexical-state     *)
(* registry, the stack of buffered input streams and the longest-match     *)
(* scan loop of next_token().                                              *)
(*                                                                         *)
(* The pattern engine (re2::RE2 and re2::RE2::Set) is an external library; *)
(* it is modelled by what its calls do at the places the tokenizer makes   *)
(* them: Add/Compile/Match of a set, and the anchored match of one         *)
(* pattern.  Two things the C++ build decides are state of the model:      *)
(* whether assert() is compiled in (NDEBUG of the translation unit that    *)
(* includes the header) and whether the engine's LOG(DFATAL) checks are    *)
(* fatal (NDEBUG of the engine's build).  Each is "unknown" until the      *)
(* first check of its kind fails: the run then either stops there (the     *)
(* check is compiled in) or goes on with the check known to be "off".      *)
(***************************************************************************)
EXTENDS Integers, Sequences, FiniteSets, TLC

VARIABLES
    tokens,         \* _tokens: the registry, token id i is tokens[i + 1]
    state_info,     \* _state_info: state name -> StateInfo
    input_stack,    \* _input_stack: sequence of InputStream, top is last
    capacity,       \* _input_stack.capacity()
    current_state,  \* _current_state: a state name, or NullState
    asserts,        \* assert() of the tokenizer: "unknown" or "off" (NDEBUG)
    dfatal,         \* LOG(DFATAL) of the engine fatal: "unknown" or "off"
    pc,             \* "idle", or "scan" inside the loop of next_token()
    result,         \* what the last next_token() call returned
    status,         \* "ok", "aborted" (assert / DFATAL), "undefined" (UB executed)
    scan            \* the locals of the last loop iteration of next_token()

vars == <<tokens, state_info, input_stack, capacity, current_state,
          asserts, dfatal, pc, result, status, scan>>

---------------------------------------------------------------------------
(* Bounds of the model *)

\* add_token() calls made by the user (the constructor's call not counted)
MaxTokens == 2
\* greatest depth of the input stream stack
MaxDepth == 2
(* std::string keeps contents of up to this many characters inside the
   string object itself (libstdc++), so that moving the InputStream moves
   the characters *)
SsoCapacity == 15

Alphabet == {"a", "b"}
\* a character no registered pattern matches (what a stale read may give)
Junk == "z"

DefaultState == "@default"
InnerState == "inner"
NullState == "nullptr"
NoSymbol == "null"
EndSymbol == "$end"
NoTransition == ""

---------------------------------------------------------------------------
(* Text *)

RECURSIVE Strings(_, _)
Strings(chars, n) ==
    IF n = 0 THEN {<<>>}
    ELSE LET shorter == Strings(chars, n - 1)
         IN shorter \cup {<<c>> \o s : c \in chars, s \in {t \in shorter : Len(t) = n - 1}}

\* the inputs pushed
Inputs == {<<>>, <<"a", "b">>}

Take(s, n) == SubSeq(s, 1, n)
Drop(s, n) == SubSeq(s, n + 1, Len(s))

IsPrefix(p, s) == Len(p) <= Len(s) /\ Take(s, Len(p)) = p

---------------------------------------------------------------------------
(* Pattern engine: the patterns used here are a literal, the end-of-text
   pattern "$" and the repetition c*.  All matches are anchored at the start
   of the text. *)

Lit(s) == [kind |-> "lit", s |-> s]
EndPattern == [kind |-> "end", s |-> <<>>]
Star(c) == [kind |-> "star", s |-> <<c>>]

RECURSIVE RunLength(_, _)
RunLength(c, text) ==
    IF text # <<>> /\ Head(text) = c THEN 1 + RunLength(c, Tail(text)) ELSE 0

\* length of the anchored match of one pattern, -1 when it does not match
MatchLen(pattern, text) ==
    CASE pattern.kind = "lit" -> IF IsPrefix(pattern.s, text) THEN Len(pattern.s) ELSE -1
      [] pattern.kind = "end" -> IF text = <<>> THEN 0 ELSE -1
      [] pattern.kind = "star" -> RunLength(pattern.s[1], text)

\* RE2::Set::Match on a compiled set: the 0-based indices of the patterns
\* that match
MatchedSet(re_set, text) ==
    {i \in 0 .. Len(re_set.patterns) - 1 : MatchLen(re_set.patterns[i + 1], text) >= 0}

\* the orders in which the engine may write a matched set into the vector
Orders(S) ==
    {f \in [1 .. Cardinality(S) -> S] : \A i, j \in 1 .. Cardinality(S) : i # j => f[i] # f[j]}

---------------------------------------------------------------------------
(* Results of next_token() *)

NoCall == [kind |-> "none", symbol |-> NoSymbol, value |-> <<>>, len |-> 0]
NoToken == [kind |-> "nullopt", symbol |-> NoSymbol, value |-> <<>>, len |-> 0]
TokenMatch(symbol, value, len) ==
    [kind |-> "match", symbol |-> symbol, value |-> value, len |-> len]
EndOfInput == TokenMatch(EndSymbol, <<>>, 0)

NoScan == [called |-> FALSE, startEmpty |-> FALSE, queried |-> FALSE, state |-> NullState,
           compiled |-> FALSE, text |-> <<>>, order |-> <<>>, best |-> -1, len |-> -1]

---------------------------------------------------------------------------
(* Token and state registry *)

\* a token numbered from one instead of from _tokens.size()
TokenNumberedFromOne(id, pattern, symbol) ==
    [id |-> id + 1, pattern |-> pattern, symbol |-> symbol, action |-> FALSE,
     transition |-> NoTransition]

\* Token(id, pattern, symbol) as add_token() constructs it: no action and
\* no transition yet
Token(id, pattern, symbol) ==
    [id |-> id, pattern |-> pattern, symbol |-> symbol,
     action |-> FALSE, transition |-> NoTransition]

\* the setters the grammar author calls on the pointer add_token() returns
Configure(tok, action, transition) ==
    [tok EXCEPT !.action = action, !.transition = transition]

NewStateInfo(name) ==
    [name |-> name, re_set |-> [compiled |-> FALSE, patterns |-> <<>>], tokens |-> <<>>]

GetOrMakeStateInfo(info, name) ==
    IF name \in DOMAIN info THEN info ELSE info @@ (name :> NewStateInfo(name))

\* the pointer get_state_info() returns: the state, or nullptr
GetStateInfo(info, name) ==
    IF name \in DOMAIN info THEN name ELSE NullState

\* RE2::Set::Add: appends the pattern; after Compile() it adds nothing
\* (LOG(DFATAL), then returns -1)
SetAdd(re_set, pattern) ==
    IF re_set.compiled THEN re_set
    ELSE [re_set EXCEPT !.patterns = Append(@, pattern)]

\* RE2::Set::Compile
SetCompile(re_set) == [re_set EXCEPT !.compiled = TRUE]

\* the loop of add_token() over the named states; fatal when the engine's
\* DFATAL check of Add() on a compiled set aborts
RECURSIVE AddToStates(_, _, _, _)
AddToStates(info, states, tok, fatal) ==
    IF states = <<>> THEN [info |-> info, fatal |-> FALSE]
    ELSE LET name == Head(states)
             made == GetOrMakeStateInfo(info, name)
         IN  IF made[name].re_set.compiled /\ fatal
             THEN [info |-> made, fatal |-> TRUE]
             ELSE AddToStates(
                     [made EXCEPT ![name] =
                         [@ EXCEPT !.re_set = SetAdd(@, tok.pattern),
                                   !.tokens = Append(@, tok.id)]],
                     Tail(states), tok, fatal)

\* the token the constructor registers
EndToken == Token(0, EndPattern, EndSymbol)

\* the registrations a grammar author makes: pattern, symbol, states, and
\* the action / transition set on the returned token
TokenInputs ==
    { [pattern |-> Lit(<<"a">>), symbol |-> "S1", states |-> <<DefaultState, InnerState>>,
       action |-> TRUE, transition |-> DefaultState],
      [pattern |-> Lit(<<"a">>), symbol |-> "S2", states |-> <<DefaultState>>,
       action |-> FALSE, transition |-> NoTransition],
      [pattern |-> Lit(<<"a", "b">>), symbol |-> "S2", states |-> <<DefaultState>>,
       action |-> TRUE, transition |-> InnerState],
      [pattern |-> Star("b"), symbol |-> NoSymbol, states |-> <<DefaultState, InnerState>>,
       action |-> FALSE, transition |-> InnerState] }

---------------------------------------------------------------------------
(* Input streams *)

Top == input_stack[Len(input_stack)]

NewStream(input) ==
    [content |-> input, stream |-> input, at_end |-> FALSE, live |-> TRUE]

\* an InputStream moved to the vector's new storage: a short content is
\* copied into the new string object and the old one is freed, and `stream`
\* still points into the old one (a view of no characters reads nothing
\* through that pointer)
Relocated(e) ==
    IF Len(e.content) <= SsoCapacity /\ e.stream # <<>>
    THEN [e EXCEPT !.live = FALSE] ELSE e

\* std::vector growth when size() = capacity()
Grown(cap) == IF cap = 0 THEN 1 ELSE 2 * cap

\* what a read through `stream` can give: the remaining content, or for a
\* stale view any bytes of that length
Reads(e) ==
    IF e.live THEN {e.stream}
    ELSE {t \in Strings(Alphabet \cup {Junk}, Len(e.stream)) : Len(t) = Len(e.stream)}

---------------------------------------------------------------------------
(* Construction *)

Init ==
    /\ tokens = <<EndToken>>
    /\ state_info =
          AddToStates(GetOrMakeStateInfo([n \in {} |-> NewStateInfo(n)], DefaultState),
                      <<DefaultState>>, EndToken, FALSE).info
    /\ current_state = DefaultState
    /\ input_stack = <<>>
    /\ capacity = 0
    /\ asserts = "unknown"
    /\ dfatal = "unknown"
    /\ pc = "idle"
    /\ result = NoCall
    /\ status = "ok"
    /\ scan = NoScan

Idle == pc = "idle" /\ status = "ok"

\* whether a failing check of the kind is fatal in this build
Fatal(check) == IF check = "unknown" THEN BOOLEAN ELSE {FALSE}

\* the results and locals of a finished call are the driver's: it has taken
\* them when it makes another call
Taken == result' = NoCall /\ scan' = NoScan

---------------------------------------------------------------------------
(* add_token() and prepare() *)

AddToken(in) ==
    /\ Idle
    /\ Len(tokens) <= MaxTokens
    /\ LET tok == Configure(Token(Len(tokens), in.pattern, in.symbol),
                            in.action, in.transition)
           late == \E i \in 1 .. Len(in.states) :
                      /\ in.states[i] \in DOMAIN state_info
                      /\ state_info[in.states[i]].re_set.compiled
       IN  \E fatal \in (IF late THEN Fatal(dfatal) ELSE {FALSE}) :
              LET r == AddToStates(state_info, in.states, tok, fatal)
              IN  /\ tokens' = Append(tokens, tok)
                  /\ state_info' = r.info
                  /\ status' = IF r.fatal THEN "aborted" ELSE "ok"
                  /\ dfatal' = IF late /\ ~fatal THEN "off" ELSE dfatal
    /\ Taken
    /\ UNCHANGED <<input_stack, capacity, current_state, asserts, pc>>

\* prepare(): Compile() on every state, in the map's order.  Compile() on
\* a compiled set is a DFATAL check of the engine: fatal, or a call that
\* changes nothing.
Prepare ==
    /\ Idle
    /\ LET done == {n \in DOMAIN state_info : state_info[n].re_set.compiled}
           todo == DOMAIN state_info \ done
           Compiled(S) == [n \in DOMAIN state_info |->
                             IF n \in S THEN [state_info[n] EXCEPT !.re_set = SetCompile(@)]
                             ELSE state_info[n]]
       IN  \E fatal \in (IF done # {} THEN Fatal(dfatal) ELSE {FALSE}) :
              /\ IF fatal
                 THEN /\ \E S \in SUBSET todo : state_info' = Compiled(S)
                      /\ status' = "aborted"
                 ELSE /\ state_info' = Compiled(todo)
                      /\ status' = "ok"
              /\ dfatal' = IF done # {} /\ ~fatal THEN "off" ELSE dfatal
    /\ Taken
    /\ UNCHANGED <<tokens, input_stack, capacity, current_state, asserts, pc>>

---------------------------------------------------------------------------
(* push_input_stream() and pop_input_stream() *)

PushInputStream(input) ==
    /\ Idle
    /\ Len(input_stack) < MaxDepth
    /\ LET grow == Len(input_stack) = capacity
           below == IF grow THEN [i \in 1 .. Len(input_stack) |-> Relocated(input_stack[i])]
                    ELSE input_stack
       IN  /\ input_stack' = below \o <<NewStream(input)>>
           /\ capacity' = IF grow THEN Grown(capacity) ELSE capacity
    /\ Taken
    /\ UNCHANGED <<tokens, state_info, current_state, asserts, dfatal, pc, status>>

\* a pop_input_stream() that also re-enters the default state
PopToDefaultState ==
    /\ Idle
    /\ IF input_stack = <<>>
       THEN /\ status' = "undefined"
            /\ UNCHANGED input_stack
       ELSE /\ input_stack' = SubSeq(input_stack, 1, Len(input_stack) - 1)
            /\ UNCHANGED status
    /\ current_state' = DefaultState
    /\ Taken
    /\ UNCHANGED <<tokens, state_info, capacity, asserts, dfatal, pc>>

\* pop_back() on an empty vector is undefined
PopInputStream ==
    /\ Idle
    /\ IF input_stack = <<>>
       THEN /\ status' = "undefined"
            /\ UNCHANGED input_stack
       ELSE /\ input_stack' = SubSeq(input_stack, 1, Len(input_stack) - 1)
            /\ UNCHANGED status
    /\ Taken
    /\ UNCHANGED <<tokens, state_info, capacity, current_state, asserts, dfatal, pc>>

---------------------------------------------------------------------------
(* next_token() *)

\* a comparison against the initial value only: the first candidate examined
\* stays the best match
FirstExamined(longest_match, submatch) == longest_match < 0

\* the comparison that makes a candidate the new best match
Longer(longest_match, submatch) == longest_match < submatch

\* the loop over matched_patterns: each candidate's own anchored match gives
\* `submatch` (kept from the previous candidate when the match fails), and a
\* strictly longer one replaces best_match
RECURSIVE BestMatch(_, _, _, _, _, _)
BestMatch(order, info, text, best_match, longest_match, submatch) ==
    IF order = <<>> THEN [best |-> best_match, longest |-> longest_match]
    ELSE LET tok == tokens[info.tokens[Head(order) + 1] + 1]
             m == MatchLen(tok.pattern, text)
             sub == IF m >= 0 THEN m ELSE submatch
         IN  IF Longer(longest_match, sub)
             THEN BestMatch(Tail(order), info, text, tok.id, sub, sub)
             ELSE BestMatch(Tail(order), info, text, best_match, longest_match, sub)

\* at_end after a match: set when the stream is empty before the prefix is
\* removed
AtEnd(e, longest_match) == e.at_end \/ Len(e.stream) = 0

\* a has_symbol() that never reports a skip token
AnySymbol(tok) == TRUE

HasSymbol(tok) == tok.symbol # NoSymbol
HasAction(tok) == tok.action
HasTransition(tok) == tok.transition # NoTransition

\* an enter_state() that looks the state up and drops the result
EnterStateDropped(info, name) == current_state

\* enter_state(): _current_state after the assignment
EnterState(info, name) == GetStateInfo(info, name)

\* an action applied to the whole remaining stream
ValueOfStream(tok, text, longest_match) ==
    IF HasAction(tok) THEN text ELSE <<>>

\* the value of a match: the action applied to the matched text (modelled as
\* the matched text itself), or ValueT{}
Value(tok, text, longest_match) ==
    IF HasAction(tok) THEN Take(text, longest_match) ELSE <<>>

\* the state the winner leaves _current_state in
StateAfter(tok) ==
    IF HasTransition(tok) THEN EnterState(state_info, tok.transition) ELSE current_state

\* a no-match branch that falls through to the end-of-input return
NoMatchAsEnd == EndOfInput

\* what the no-match branch returns
NoMatchResult == NoToken

\* an empty-stack branch that reports the end of input
EmptyStackAsEnd == EndOfInput

\* what the empty-stack branch returns
EmptyStackResult == NoToken

\* the state whose matcher a scan iteration queries
QueriedState == current_state

Return(r) == pc' = "idle" /\ result' = r

\* a write through _input_stack.front() instead of back()
SetBottom(e) == input_stack' = [input_stack EXCEPT ![1] = e]

SetTop(e) == input_stack' = [input_stack EXCEPT ![Len(input_stack)] = e]

NextTokenCall ==
    /\ Idle
    /\ pc' = "scan"
    /\ result' = NoCall
    /\ scan' = [NoScan EXCEPT !.called = TRUE,
                              !.startEmpty = (input_stack # <<>> /\ Top.stream = <<>>)]
    /\ UNCHANGED <<tokens, state_info, input_stack, capacity, current_state, asserts,
                   dfatal, status>>

NoQuery == [NoScan EXCEPT !.called = TRUE, !.startEmpty = scan.startEmpty]

\* line 112: no input stream
IterEmptyStack ==
    /\ input_stack = <<>>
    /\ Return(EmptyStackResult)
    /\ scan' = NoQuery
    /\ UNCHANGED <<input_stack, current_state, status, asserts, dfatal>>

\* line 160: the top stream is marked at_end
IterAtEnd ==
    /\ input_stack # <<>>
    /\ Top.at_end
    /\ Return(EndOfInput)
    /\ scan' = NoQuery
    /\ UNCHANGED <<input_stack, current_state, status, asserts, dfatal>>

\* line 121 with _current_state == nullptr
IterNullState ==
    /\ input_stack # <<>>
    /\ ~Top.at_end
    /\ QueriedState = NullState
    /\ status' = "undefined"
    /\ scan' = NoQuery
    /\ UNCHANGED <<input_stack, current_state, pc, result, asserts, dfatal>>

\* line 121 on a set that was never compiled: the engine's DFATAL check,
\* fatal or a Match() that returns false with nothing matched
IterNotCompiled ==
    /\ input_stack # <<>>
    /\ ~Top.at_end
    /\ QueriedState # NullState
    /\ ~state_info[QueriedState].re_set.compiled
    /\ scan' = [NoQuery EXCEPT !.queried = TRUE, !.state = QueriedState]
    /\ \E fatal \in Fatal(dfatal) :
          IF fatal
          THEN status' = "aborted" /\ UNCHANGED <<pc, result, dfatal>>
          ELSE Return(NoMatchResult) /\ dfatal' = "off" /\ UNCHANGED status
    /\ UNCHANGED <<input_stack, current_state, asserts>>

\* lines 121-125: nothing matched
IterNoMatch(text) ==
    /\ input_stack # <<>>
    /\ ~Top.at_end
    /\ QueriedState # NullState
    /\ state_info[QueriedState].re_set.compiled
    /\ MatchedSet(state_info[QueriedState].re_set, text) = {}
    /\ scan' = [NoQuery EXCEPT !.queried = TRUE, !.state = QueriedState,
                               !.compiled = TRUE, !.text = text]
    /\ Return(NoMatchResult)
    /\ UNCHANGED <<input_stack, current_state, status, asserts, dfatal>>

\* lines 127-154: a winner is selected
IterMatch(text, order) ==
    /\ input_stack # <<>>
    /\ ~Top.at_end
    /\ QueriedState # NullState
    /\ state_info[QueriedState].re_set.compiled
    /\ order # <<>>
    /\ LET info == state_info[QueriedState]
           bm == BestMatch(order, info, text, -1, -1, 0)
           tok == tokens[bm.best + 1]
           marked == [Top EXCEPT !.at_end = AtEnd(Top, bm.longest)]
           unknown == HasTransition(tok) /\ StateAfter(tok) = NullState
       IN  /\ scan' = [NoQuery EXCEPT !.queried = TRUE, !.state = QueriedState,
                                      !.compiled = TRUE, !.text = text, !.order = order,
                                      !.best = bm.best, !.len = bm.longest]
           /\ current_state' = StateAfter(tok)
           /\ \E fatal \in (IF unknown THEN Fatal(asserts) ELSE {FALSE}) :
                 IF fatal
                 THEN \* the assert of enter_state() fails
                      /\ status' = "aborted"
                      /\ SetTop(marked)
                      /\ UNCHANGED <<pc, result, asserts>>
                 ELSE /\ UNCHANGED status
                      /\ asserts' = IF unknown THEN "off" ELSE asserts
                      /\ SetTop([marked EXCEPT !.stream = Drop(@, bm.longest)])
                      /\ IF HasSymbol(tok)
                         THEN Return(TokenMatch(tok.symbol, Value(tok, text, bm.longest),
                                                bm.longest))
                         ELSE UNCHANGED <<pc, result>>
           /\ UNCHANGED dfatal

\* one iteration of the while loop
Iteration ==
    /\ pc = "scan"
    /\ status = "ok"
    /\ \/ IterEmptyStack
       \/ IterAtEnd
       \/ IterNullState
       \/ IterNotCompiled
       \/ \E text \in (IF input_stack = <<>> THEN {} ELSE Reads(Top)) :
             \/ IterNoMatch(text)
             \/ \E order \in Orders(IF QueriedState \in DOMAIN state_info
                                    THEN MatchedSet(state_info[QueriedState].re_set, text)
                                    ELSE {}) :
                   IterMatch(text, order)
    /\ UNCHANGED <<tokens, state_info, capacity>>

---------------------------------------------------------------------------

Next ==
    \/ \E in \in TokenInputs : AddToken(in)
    \/ Prepare
    \/ \E input \in Inputs : PushInputStream(input)
    \/ PopInputStream
    \/ NextTokenCall
    \/ Iteration

Spec == Init /\ [][Next]_vars

---------------------------------------------------------------------------
(* Properties *)

Range(f) == {f[i] : i \in DOMAIN f}

\* the matched length line 132 obtains for the candidate with pattern index
\* idx of a state
CandidateLen(state, idx, text) ==
    MatchLen(tokens[state_info[state].tokens[idx + 1] + 1].pattern, text)

\* a loop iteration selected a winner
Selected == scan.queried /\ scan.order # <<>>

\* C1: Longest match.  Whenever an iteration of next_token() selects a
\* winner, the winner is a candidate of the matched set of the queried
\* state, its matched length is the selected length, and no candidate of the
\* matched set has a greater matched length.
C1_LongestMatch ==
    Selected =>
        LET cands == MatchedSet(state_info[scan.state].re_set, scan.text)
        IN  /\ Range(scan.order) = cands
            /\ \E i \in cands :
                  /\ state_info[scan.state].tokens[i + 1] = scan.best
                  /\ CandidateLen(scan.state, i, scan.text) = scan.len
            /\ \A i \in cands : CandidateLen(scan.state, i, scan.text) <= scan.len

\* a shorter candidate was examined first and a longer one won
C1_Witness ==
    /\ Selected
    /\ status = "ok"
    /\ Top.live
    /\ Len(scan.order) >= 2
    /\ CandidateLen(scan.state, scan.order[1], scan.text) < scan.len

\* C2: Tie-break determinism.  Among the candidates with the greatest
\* matched length the winner is the one at the lowest position of the
\* state's token list, whatever the order the engine reported.
C2_TieBreakRegistrationOrder ==
    Selected =>
        LET longest == {i \in Range(scan.order) :
                          CandidateLen(scan.state, i, scan.text) = scan.len}
        IN  \E i \in longest :
               /\ \A j \in longest : i <= j
               /\ scan.best = state_info[scan.state].tokens[i + 1]

\* C3: Skip tokens are invisible.  A winner without a symbol advances the
\* top stream's cursor by its matched length and the loop goes on without
\* returning; a winner with a symbol is returned with that symbol; every
\* returned match carries a symbol.
C3_SkipInvisible ==
    /\ [](result.kind = "match" => result.symbol # NoSymbol)
    /\ [][(pc = "scan" /\ status' = "ok" /\ scan'.queried /\ scan'.order # <<>>) =>
            LET tok == tokens[scan'.best + 1]
            IN  /\ tok.symbol = NoSymbol =>
                     /\ pc' = "scan"
                     /\ result' = NoCall
                     /\ Top'.stream = Drop(Top.stream, scan'.len)
                /\ tok.symbol # NoSymbol =>
                     /\ pc' = "idle"
                     /\ result'.kind = "match"
                     /\ result'.symbol = tok.symbol]_vars

\* a skip token consumed input and the call is still scanning
C3_Witness ==
    /\ Selected
    /\ status = "ok"
    /\ Top.live
    /\ pc = "scan"
    /\ tokens[scan.best + 1].symbol = NoSymbol
    /\ scan.len > 0

\* C4: State transition takes effect immediately.  Every match query is
\* made against the state that is current when the iteration starts, so a
\* winner is matched by the patterns of the state current before it; a
\* winner with a transition to a registered state makes that state current
\* in the same iteration, a winner without one leaves the state; and nothing
\* but a winner's transition changes the current state, so the next query
\* is made against the target.
C4_TransitionImmediate ==
    [][/\ (pc = "scan" /\ scan'.queried) => scan'.state = current_state
       /\ (pc = "scan" /\ scan'.queried /\ scan'.order # <<>>) =>
            LET tok == tokens[scan'.best + 1]
            IN  /\ \E i \in Range(scan'.order) :
                      state_info[current_state].tokens[i + 1] = tok.id
                /\ (tok.transition \in DOMAIN state_info) => current_state' = tok.transition
                /\ (tok.transition = NoTransition) => current_state' = current_state
       /\ (current_state' # current_state) =>
            /\ pc = "scan"
            /\ scan'.queried /\ scan'.order # <<>>
            /\ tokens[scan'.best + 1].transition # NoTransition]_vars

\* a query against the inner state: made after a winner of the default state
\* switched to it
C4_Witness ==
    /\ scan.queried
    /\ scan.compiled
    /\ scan.state = InnerState
    /\ status = "ok"
    /\ Top.live

AllCompiled == \A n \in DOMAIN state_info : state_info[n].re_set.compiled

\* C5: Exhaustion yields end-of-input until pop.  A call that starts with
\* the top stream's content all consumed returns the end-of-input result,
\* whatever state is current (stated for prepared matchers and a stream
\* whose view is intact).
C5_ExhaustedGivesEndOfInput ==
    (/\ pc = "idle"
     /\ status = "ok"
     /\ scan.called
     /\ scan.startEmpty
     /\ AllCompiled
     /\ current_state # NullState
     /\ input_stack # <<>> /\ Top.live)
    => result = EndOfInput

\* C6: Push/pop resumption.  A push adds a top entry at the start of its
\* content, not at_end, and leaves every entry below as it was; a pop
\* removes the top entry only.
C6_PushPopFrame ==
    [][/\ (Len(input_stack') = Len(input_stack) + 1) =>
            /\ Top'.stream = Top'.content
            /\ ~Top'.at_end
            /\ \A i \in 1 .. Len(input_stack) : input_stack'[i] = input_stack[i]
       /\ (Len(input_stack') = Len(input_stack) - 1) =>
            input_stack' = SubSeq(input_stack, 1, Len(input_stack) - 1)]_vars

\* C7: Lexical failure is distinct from exhaustion.  When the top stream is
\* not at_end and no pattern of the (compiled) current state matches the
\* text at its cursor, the iteration returns the no-token signal, not the
\* end-of-input result, and leaves the stream as it was, not at_end.
C7_LexicalFailure ==
    [][(/\ pc = "scan"
        /\ input_stack # <<>>
        /\ ~Top.at_end
        /\ current_state \in DOMAIN state_info
        /\ state_info[current_state].re_set.compiled
        /\ scan'.queried
        /\ MatchedSet(state_info[current_state].re_set, scan'.text) = {})
       => /\ pc' = "idle"
          /\ status' = "ok"
          /\ result' = NoToken
          /\ result' # EndOfInput
          /\ input_stack' = input_stack
          /\ ~Top'.at_end]_vars

\* a call failed on input that is not consumed
C7_Witness ==
    /\ pc = "idle"
    /\ status = "ok"
    /\ scan.queried /\ scan.compiled /\ scan.order = <<>>
    /\ scan.text # <<>>
    /\ Top.live
    /\ result = NoToken

\* C8: Finalize before match.  A match query against a matcher that was not
\* compiled never gives the driver a result: the run aborts there.
C8_FinalizeBeforeMatch ==
    (scan.queried /\ ~scan.compiled) => status = "aborted"

\* C9: Idempotent finalize.  prepare() on a registry whose matchers are all
\* compiled changes no matcher and no token list, and the tokenizer goes on.
C9_IdempotentFinalize ==
    [][(Prepare /\ AllCompiled) =>
          /\ status' = "ok"
          /\ state_info' = state_info
          /\ tokens' = tokens]_vars

\* C10: current_state validity.  current_state is a state of the registry
\* unless the tokenizer has stopped in a fatal error.
C10_CurrentStateValid ==
    current_state \in DOMAIN state_info \/ status = "aborted"

\* the token ids of a state's list, in list order
RegistrationOrdered(list) ==
    \A i, j \in DOMAIN list : i < j => list[i] < list[j]

\* C11: Registration.  Token ids are 0, 1, 2, ... in registration order and
\* never change; id 0 is the end-of-input token, listed by @default only;
\* every state's token list is in registration order.  A completed
\* add_token() creates exactly one token whose id is the number of tokens
\* registered before, creates each named state that did not exist, appends
\* the token at the end of each named state's list, leaves every other list
\* alone and compiles no matcher.
C11_Registration ==
    /\ [](/\ \A i \in DOMAIN tokens : tokens[i].id = i - 1
          /\ tokens[1].pattern = EndPattern /\ tokens[1].symbol = EndSymbol
          /\ \A n \in DOMAIN state_info :
                /\ RegistrationOrdered(state_info[n].tokens)
                /\ (0 \in Range(state_info[n].tokens)) <=> (n = DefaultState))
    /\ [][\A in \in TokenInputs :
            (AddToken(in) /\ status' = "ok") =>
               /\ Len(tokens') = Len(tokens) + 1
               /\ SubSeq(tokens', 1, Len(tokens)) = tokens
               /\ tokens'[Len(tokens')].id = Len(tokens)
               /\ tokens'[Len(tokens')].pattern = in.pattern
               /\ DOMAIN state_info' = DOMAIN state_info \cup Range(in.states)
               /\ \A n \in DOMAIN state_info' :
                     LET before == IF n \in DOMAIN state_info
                                   THEN state_info[n].tokens ELSE <<>>
                         was == n \in DOMAIN state_info /\ state_info[n].re_set.compiled
                     IN  /\ state_info'[n].tokens =
                               IF n \in Range(in.states)
                               THEN Append(before, Len(tokens)) ELSE before
                         /\ state_info'[n].re_set.compiled = was]_vars

\* two registrations completed: a token shared by both states, then one more
C11_Witness ==
    /\ status = "ok"
    /\ Len(tokens) = 3
    /\ state_info[DefaultState].tokens = <<0, 1, 2>>
    /\ InnerState \in DOMAIN state_info
    /\ state_info[InnerState].tokens # <<>>

\* C12: next_token() terminates.  No iteration of the scan loop leaves the
\* tokenizer exactly as it found it: an iteration that does is repeated
\* without end, and the call never returns.
C12_NextTokenTerminates ==
    (pc = "scan" /\ status = "ok") => ~ENABLED (Iteration /\ UNCHANGED vars)

\* C13: Early exhaustion detection.  After an iteration whose winner's
\* matched length is the whole remaining content of the top stream, the
\* stream is marked at_end.
C13_EarlyExhaustion ==
    (Selected /\ status = "ok" /\ scan.len = Len(scan.text)) => Top.at_end

\* C14: Empty stack.  An iteration of next_token() that finds the input
\* stack empty returns the no-token signal, never the end-of-input result,
\* without a match query, and leaves current_state, the registry and the
\* stack unchanged.
C14_EmptyStack ==
    [][(pc = "scan" /\ status = "ok" /\ input_stack = <<>>)
       => /\ pc' = "idle"
          /\ status' = "ok"
          /\ result' = NoToken
          /\ result' # EndOfInput
          /\ ~scan'.queried
          /\ UNCHANGED <<current_state, tokens, state_info, input_stack>>]_vars

\* a call returned on an empty stack
C14_Witness ==
    /\ pc = "idle"
    /\ status = "ok"
    /\ input_stack = <<>>
    /\ scan.called /\ ~scan.queried
    /\ result = NoToken

\* C15: Returned match and cursor advance.  When an iteration returns a
\* match, the result is the winner's symbol, the value and the matched
\* length n; the value is the winner's action applied to the first n
\* characters read at the cursor before it advanced (the default value when
\* the winner has no action); the cursor afterwards is the previous cursor
\* without its first n characters.
C15_ReturnedMatch ==
    [][(pc = "scan" /\ pc' = "idle" /\ status' = "ok" /\ scan'.order # <<>>)
       => LET tok == tokens[scan'.best + 1]
              n == scan'.len
          IN  /\ scan'.text \in Reads(Top)
              /\ Top.live => scan'.text = Top.stream
              /\ n >= 0 /\ n <= Len(Top.stream)
              /\ result' = TokenMatch(tok.symbol,
                                     IF tok.action THEN SubSeq(scan'.text, 1, n)
                                     ELSE <<>>,
                                     n)
              /\ tok.symbol # NoSymbol
              /\ Top'.stream = SubSeq(Top.stream, n + 1, Len(Top.stream))
              /\ Len(Top'.stream) = Len(Top.stream) - n
              /\ Top'.content = Top.content]_vars

\* a match of one character with an action was returned from a longer cursor
C15_Witness ==
    /\ pc = "idle"
    /\ status = "ok"
    /\ Selected
    /\ Top.live
    /\ scan.text = <<"a", "b">>
    /\ result = TokenMatch("S1", <<"a">>, 1)
    /\ Top.stream = <<"b">>

\* C16: No automatic pop.  No step of next_token() changes the depth of the
\* input stack or any entry below the top, an exhausted top included; the
\* depth changes only in push_input_stream() and pop_input_stream().
C16_NoAutomaticPop ==
    [][/\ (pc = "scan" \/ pc' = "scan") =>
             /\ Len(input_stack') = Len(input_stack)
             /\ \A i \in 1..(Len(input_stack) - 1) : input_stack'[i] = input_stack[i]
       /\ Len(input_stack') # Len(input_stack) =>
             \/ \E input \in Inputs : PushInputStream(input)
             \/ PopInputStream]_vars

\* a call on an exhausted stream above another returned the end of input
\* and both entries are still there
C16_Witness ==
    /\ pc = "idle"
    /\ status = "ok"
    /\ Len(input_stack) = 2
    /\ Top.at_end
    /\ scan.called
    /\ result = EndOfInput
    /\ input_stack[1].stream # <<>>

\* C17: current_state has a single writer.  current_state is @default after
\* construction; add_token(), prepare(), push_input_stream(),
\* pop_input_stream() and the entry of next_token() leave it unchanged; it
\* changes only in an iteration of next_token() that selects a winner with a
\* state transition, and then to that transition's target.
C17_SingleWriter ==
    /\ current_state = DefaultState
    /\ [][/\ pc = "idle" => current_state' = current_state
          /\ PopInputStream => current_state' = current_state
          /\ current_state' # current_state =>
                /\ pc = "scan"
                /\ scan'.order # <<>>
                /\ tokens[scan'.best + 1].transition # NoTransition
                /\ current_state' =
                      GetStateInfo(state_info, tokens[scan'.best + 1].transition)]_vars

\* a stream that was scanned after a pop, with its first token taken by the
\* inner state: in @default the longer "ab" would have won, no registered
\* pattern matches the empty string, so the state was entered on another
\* stream
C17_Witness ==
    /\ pc = "idle"
    /\ status = "ok"
    /\ Len(input_stack) = 1
    /\ capacity = 2
    /\ \A i \in DOMAIN tokens : tokens[i].pattern.kind # "star"
    /\ \E i \in DOMAIN tokens : tokens[i].pattern = Lit(<<"a", "b">>)
    /\ Top.content = <<"a", "b">>
    /\ Top.stream = <<"b">>
    /\ scan.queried
    /\ scan.state = InnerState
    /\ scan.text = <<"a", "b">>
    /\ result = TokenMatch("S1", <<"a">>, 1)

\* a call just returned the no-token signal from a match query
FailedQuery ==
    /\ pc = "idle"
    /\ status = "ok"
    /\ scan.queried
    /\ result = NoToken

C19_PatternIndexAlignment ==
    \A n \in DOMAIN state_info :
       LET st == state_info[n]
       IN  /\ Len(st.re_set.patterns) = Len(st.tokens)
           /\ \A i \in DOMAIN st.re_set.patterns :
                 /\ i \in DOMAIN st.tokens
                 /\ st.re_set.patterns[i] = tokens[st.tokens[i] + 1].pattern

====
